---- MODULE Spec2Model ----
(***************************************************************************)
(* Model of the iMessage -> blog pipeline: the thread-boundary detector    *)
(* (IMessageSyncService.detectThreadBoundaries), the draft repository      *)
(* (BlogPostService.createDraftPost) and the single-flight job             *)
(* orchestrator (ScheduledTaskService.runGenerationJob).                   *)
(*                                                                         *)
(* Spec        the orchestrator, the sync step and the three tables, one   *)
(*             action per continuation between two awaits.                 *)
(* SpecDetect  the detector as a pure function of an ordered message list. *)
(***************************************************************************)
EXTENDS Integers, Sequences, FiniteSets, TLC

VARIABLES
    isRunning,      \* ScheduledTaskService.isRunning
    job,            \* per caller: position in runGenerationJob and its locals
    message,        \* table Message, row id = index
    blogPost,       \* table BlogPost, keyed by autoincrement id
    postMessage,    \* table PostMessage (link rows), in insertion order
    nextPostId,     \* BlogPost AUTOINCREMENT counter
    timeGapHours,   \* process.env.THREAD_GAP_HOURS after parseInt
    maxThreads,     \* process.env.MAX_THREADS_PER_RUN after parseInt
    dIn,            \* SpecDetect: the ordered unclaimed messages
    dGap,           \* SpecDetect: the threshold in hours
    dOut,           \* SpecDetect: the returned threads
    dDone,          \* SpecDetect: detection has run
    req,            \* per client: the BlogPostService call in flight
    sync,           \* per trigger: the syncNewMessages call in flight
    user,           \* table User, row id = index
    auth,           \* per client: the /auth request in flight
    issued          \* the tokens handed out in responses so far

vars == <<isRunning, job, message, blogPost, postMessage, nextPostId,
          timeGapHours, maxThreads, dIn, dGap, dOut, dDone, req, sync,
          user, auth, issued>>

dbVars == <<message, blogPost, postMessage, nextPostId>>
envVars == <<timeGapHours, maxThreads>>
detectVars == <<dIn, dGap, dOut, dDone>>
authVars == <<user, auth, issued>>
\* what the orchestrator's own steps never touch
restVars == <<detectVars, req, sync, authVars>>

----------------------------------------------------------------------------
(* Bounds *)

MaxLen == 3         \* SpecDetect: longest input list
MaxPosts == 2       \* Spec: BlogPost rows ever created

(* Program constants *)

HourMs == 3600000   \* 60 * 60 * 1000

Chats == {"chat-1", "chat-2"}
Senders == {"sender-1", "sender-2"}
GapHoursChoices == {1, 2}
MaxThreadsChoices == {1, 2}

----------------------------------------------------------------------------
(* Thread detection *)

NoThread == [chatId |-> "none"]

Range(s) == {s[i] : i \in DOMAIN s}

Reverse(s) == [i \in 1..Len(s) |-> s[Len(s) + 1 - i]]

gapMs(hours) == hours * HourMs

NewThread(m) ==
    [chatId |-> m.chatId,
     messageIds |-> <<m.id>>,
     startTime |-> m.sentAt,
     endTime |-> m.sentAt,
     messageCount |-> 1,
     participants |-> <<m.senderId>>]

\* the gap test with <= in place of <
ExtendsThreadInclusive(cur, m, gap) ==
    /\ m.chatId = cur.chatId
    /\ m.sentAt - cur.endTime <= gap

\* the gap test alone, without the chatId comparison
ExtendsThreadGapOnly(cur, m, gap) ==
    m.sentAt - cur.endTime < gap

\* a scan that never extends the open thread
ExtendsThreadNever(cur, m, gap) == FALSE

\* the chatId comparison alone, without the gap test
ExtendsThreadChatOnly(cur, m, gap) ==
    m.chatId = cur.chatId

ExtendsThread(cur, m, gap) ==
    /\ m.chatId = cur.chatId
    /\ m.sentAt - cur.endTime < gap

\* the push of the sender without the includes test
AddToThreadPushesSender(cur, m) ==
    [cur EXCEPT !.messageIds = Append(@, m.id),
                !.endTime = m.sentAt,
                !.messageCount = @ + 1,
                !.participants = Append(@, m.senderId)]

AddToThread(cur, m) ==
    [cur EXCEPT !.messageIds = Append(@, m.id),
                !.endTime = m.sentAt,
                !.messageCount = @ + 1,
                !.participants = IF m.senderId \in Range(@) THEN @
                                 ELSE Append(@, m.senderId)]

\* the scan without the final push of the open thread
AddLastThreadDropped(threads, cur) == threads

AddLastThread(threads, cur) ==
    IF cur # NoThread THEN Append(threads, cur) ELSE threads

RECURSIVE ScanMessages(_, _, _, _, _)
ScanMessages(msgs, i, threads, cur, gap) ==
    IF i > Len(msgs) THEN AddLastThread(threads, cur)
    ELSE IF cur = NoThread
         THEN ScanMessages(msgs, i + 1, threads, NewThread(msgs[i]), gap)
    ELSE IF ExtendsThread(cur, msgs[i], gap)
         THEN ScanMessages(msgs, i + 1, threads, AddToThread(cur, msgs[i]), gap)
    ELSE ScanMessages(msgs, i + 1, Append(threads, cur), NewThread(msgs[i]), gap)

\* the threads in the order the scan closed them, without the reversal
detectThreadBoundariesNoReverse(msgs, hours) ==
    ScanMessages(msgs, 1, <<>>, NoThread, gapMs(hours))

detectThreadBoundaries(msgs, hours) ==
    Reverse(ScanMessages(msgs, 1, <<>>, NoThread, gapMs(hours)))
----------------------------------------------------------------------------
(* Calls in flight outside the orchestrator *)

Clients == {"u1", "u2"}

Syncers == {"job", "trigger"}

NoUpdates == [title |-> "undefined", content |-> "undefined"]

IdleReq ==
    [pc |-> "idle", op |-> "none", id |-> 0, seen |-> "none",
     updates |-> NoUpdates, thread |-> NoThread, outcome |-> "none"]

IdleSync ==
    [pc |-> "idle", batch |-> <<>>, messagesAdded |-> 0, errors |-> <<>>]

AuthClients == {"a1", "a2"}

\* a JWT: its payload, its expiresIn option and the key it is signed with
NoToken ==
    [userId |-> 0, email |-> "undefined", expiresIn |-> "undefined",
     key |-> "undefined"]

NoResponse ==
    [status |-> 0, error |-> "none", accessToken |-> NoToken,
     refreshToken |-> NoToken]

IdleAuth ==
    [pc |-> "idle", op |-> "none", email |-> "", password |-> "", found |-> 0,
     token |-> NoToken, response |-> NoResponse]

InitIdle ==
    /\ req = [u \in Clients |-> IdleReq]
    /\ sync = [s \in Syncers |-> IdleSync]
    /\ user = <<>>
    /\ auth = [u \in AuthClients |-> IdleAuth]
    /\ issued = {}

----------------------------------------------------------------------------
(* SpecDetect: the detector applied to every bounded ordered input *)

Deltas(hours) ==
    {d \in {0, gapMs(hours) - 1, gapMs(hours), gapMs(hours) + 1} : d >= 0}

\* row ids follow insertion order, which need not be the sentAt order
IdOrders(n) == {[i \in 1..n |-> i], [i \in 1..n |-> n + 1 - i]}

RECURSIVE SumTo(_, _)
SumTo(ds, i) == IF i = 0 THEN 0 ELSE ds[i] + SumTo(ds, i - 1)

\* one conversation at 0h, 1h, 5h and 5h10m
FourMessages ==
    <<[id |-> 1, chatId |-> "chat-1", senderId |-> "sender-1", sentAt |-> 0],
      [id |-> 2, chatId |-> "chat-1", senderId |-> "sender-2", sentAt |-> HourMs],
      [id |-> 3, chatId |-> "chat-1", senderId |-> "sender-1",
       sentAt |-> 5 * HourMs],
      [id |-> 4, chatId |-> "chat-1", senderId |-> "sender-2",
       sentAt |-> 5 * HourMs + HourMs \div 6]>>

InitMain ==
    /\ isRunning = FALSE
    /\ message = <<>>
    /\ blogPost = <<>>
    /\ postMessage = <<>>
    /\ nextPostId = 1

InitDetect ==
    /\ InitMain
    /\ InitIdle
    /\ job = <<>>
    /\ timeGapHours = 2
    /\ maxThreads = 10
    /\ \/ /\ dGap \in {0} \cup GapHoursChoices
          /\ \E n \in 0..MaxLen :
               \E ids \in IdOrders(n), chats \in [1..n -> Chats],
                  snd \in [1..n -> Senders], ds \in [1..n -> Deltas(dGap)] :
                    dIn = [i \in 1..n |->
                             [id |-> ids[i], chatId |-> chats[i],
                              senderId |-> snd[i], sentAt |-> SumTo(ds, i)]]
       \/ /\ dGap = 2
          /\ dIn = FourMessages
    /\ dOut = <<>>
    /\ dDone = FALSE

Detect ==
    /\ ~dDone
    /\ dOut' = detectThreadBoundaries(dIn, dGap)
    /\ dDone' = TRUE
    /\ UNCHANGED <<isRunning, job, dbVars, envVars, dIn, dGap, req, sync, authVars>>

NextDetect == Detect

SpecDetect == InitDetect /\ [][NextDetect]_vars

----------------------------------------------------------------------------
(* The message source read by syncNewMessages *)

Callers == {"cron", "manual"}

\* what iMessageSDK.getMessages can deliver: chat-1 at 0h and 1h, chat-2 at 1h
Archive ==
    <<[id |-> "im-1", chatId |-> "chat-1", sender |-> "sender-1", date |-> 0],
      [id |-> "im-2", chatId |-> "chat-1", sender |-> "sender-2", date |-> HourMs],
      [id |-> "im-3", chatId |-> "chat-2", sender |-> "sender-1", date |-> HourMs]>>

RECURSIVE SubSeqOf(_, _, _)
SubSeqOf(s, keep, i) ==
    IF i > Len(s) THEN <<>>
    ELSE IF i \in keep THEN <<s[i]>> \o SubSeqOf(s, keep, i + 1)
    ELSE SubSeqOf(s, keep, i + 1)

Batches == {SubSeqOf(Archive, keep, 1) : keep \in SUBSET (1..Len(Archive))}

----------------------------------------------------------------------------
(* JobResult and the locals of one runGenerationJob invocation *)

\* timestamp: new Date(), the instant itself is not modelled
EmptyResult ==
    [threadsProcessed |-> 0, draftsCreated |-> 0, errors |-> <<>>,
     timestamp |-> "Date"]

AlreadyRunning == [kind |-> "Job already running", reason |-> ""]

RejectedResult ==
    [threadsProcessed |-> 0, draftsCreated |-> 0, errors |-> <<AlreadyRunning>>,
     timestamp |-> "Date"]

ThreadFailed(reason) == [kind |-> "Thread processing failed", reason |-> reason]

JobFailedError(reason) == [kind |-> "Job failed", reason |-> reason]

NoContent == [title |-> "", content |-> "", fallback |-> FALSE]

IdleJob ==
    [pc |-> "idle", result |-> EmptyResult, batch |-> <<>>,
     messagesAdded |-> 0, syncErrors |-> <<>>, threadsToProcess |-> <<>>,
     k |-> 0, aiContent |-> NoContent, post |-> 0]

ActivePcs == {"sync", "store", "detect", "load", "summarize", "create", "mark"}

LoopPcs == {"load", "summarize", "create", "mark"}

Init ==
    /\ InitMain
    /\ InitIdle
    /\ job = [c \in Callers |-> IdleJob]
    /\ timeGapHours \in GapHoursChoices
    /\ maxThreads \in MaxThreadsChoices
    /\ dIn = <<>>
    /\ dGap = 0
    /\ dOut = <<>>
    /\ dDone = FALSE

----------------------------------------------------------------------------
(* runGenerationJob: entry, single-flight guard *)

\* a resolved runGenerationJob promise resumes its awaiting caller in a
\* microtask, ahead of every timer, request and database callback
NoPendingReturn == \A c \in Callers : job[c].pc # "returned"

\* the entry without the isRunning test
runGenerationJobNoGuard(c) ==
    /\ job[c].pc = "idle"
    /\ isRunning' = TRUE
    /\ job' = [job EXCEPT ![c] = [IdleJob EXCEPT !.pc = "sync"]]
    /\ UNCHANGED <<dbVars, envVars, restVars>>

\* the entry with a rejected call resetting the flag
runGenerationJobRejectClears(c) ==
    /\ job[c].pc = "idle"
    /\ IF isRunning
       THEN /\ job' = [job EXCEPT ![c] =
                         [IdleJob EXCEPT !.pc = "returned", !.result = RejectedResult]]
            /\ isRunning' = FALSE
       ELSE /\ isRunning' = TRUE
            /\ job' = [job EXCEPT ![c] = [IdleJob EXCEPT !.pc = "sync"]]
    /\ UNCHANGED <<dbVars, envVars, restVars>>

runGenerationJob(c) ==
    /\ job[c].pc = "idle"
    /\ IF isRunning
       THEN /\ job' = [job EXCEPT ![c] =
                         [IdleJob EXCEPT !.pc = "returned", !.result = RejectedResult]]
            /\ UNCHANGED isRunning
       ELSE /\ isRunning' = TRUE
            /\ job' = [job EXCEPT ![c] = [IdleJob EXCEPT !.pc = "sync"]]
    /\ UNCHANGED <<dbVars, envVars, restVars>>

\* the finally block followed by `return result`
ReleaseAndReturn(c, res) ==
    /\ isRunning' = FALSE
    /\ job' = [job EXCEPT ![c] = [IdleJob EXCEPT !.pc = "returned", !.result = res]]

\* the outer catch without the finally block
JobFailedNoRelease(c, reason) ==
    /\ UNCHANGED isRunning
    /\ job' = [job EXCEPT ![c] =
                 [IdleJob EXCEPT !.pc = "returned",
                                 !.result = [job[c].result EXCEPT
                                    !.errors = Append(@, JobFailedError(reason))]]]

\* no outer catch: the error escapes runGenerationJob
JobFailedThrows(c, reason) ==
    /\ isRunning' = FALSE
    /\ job' = [job EXCEPT ![c] = [IdleJob EXCEPT !.pc = "threw"]]

\* the outer catch: a step outside the per-thread loop threw
JobFailed(c, reason) ==
    ReleaseAndReturn(c, [job[c].result EXCEPT
                           !.errors = Append(@, JobFailedError(reason))])

\* the caller (cron callback or POST /generate handler) consumes the result
Return(c) ==
    /\ job[c].pc = "returned"
    /\ job' = [job EXCEPT ![c] = IdleJob]
    /\ UNCHANGED <<isRunning, dbVars, envVars, restVars>>

----------------------------------------------------------------------------
(* Step 1: syncNewMessages *)

\* a run that stops at the first sync error
AfterSyncStopsOnError(c, errs, added) ==
    job' = [job EXCEPT ![c].pc = IF errs = <<>> THEN "detect" ELSE "returned",
                       ![c].result.errors = @ \o errs,
                       ![c].syncErrors = <<>>,
                       ![c].messagesAdded = 0,
                       ![c].batch = <<>>]

\* syncNewMessages has returned: push its errors, go on to detection
AfterSync(c, errs, added) ==
    job' = [job EXCEPT ![c].pc = "detect",
                       ![c].result.errors = @ \o errs,
                       ![c].syncErrors = <<>>,
                       ![c].messagesAdded = 0,
                       ![c].batch = <<>>]

\* getLastSyncTime and iMessageSDK.getMessages
SyncFetch(c) ==
    /\ job[c].pc = "sync"
    /\ \/ AfterSync(c, <<[kind |-> "Sync failed", reason |-> "getMessages"]>>, 0)
       \/ \E b \in Batches :
            IF b = <<>> THEN AfterSync(c, <<>>, 0)
            ELSE job' = [job EXCEPT ![c].pc = "store", ![c].batch = b]
    /\ UNCHANGED <<isRunning, dbVars, envVars, restVars>>

MessageRow(msg) ==
    [imessageId |-> msg.id, chatId |-> msg.chatId, senderId |-> msg.sender,
     sentAt |-> msg.date, processedForPost |-> FALSE]

Existing(msg) == \E i \in DOMAIN message : message[i].imessageId = msg.id

\* one iteration of the store loop: findUnique, then create when absent
SyncStore(c) ==
    /\ job[c].pc = "store"
    /\ LET msg == Head(job[c].batch)
           rest == Tail(job[c].batch)
           Continue(errs, added) ==
               IF rest = <<>> THEN AfterSync(c, errs, added)
               ELSE job' = [job EXCEPT ![c].batch = rest,
                                       ![c].syncErrors = errs,
                                       ![c].messagesAdded = added]
       IN \/ /\ Continue(Append(job[c].syncErrors,
                                [kind |-> "Failed to store message", reason |-> "message.create"]),
                         job[c].messagesAdded)
             /\ UNCHANGED message
          \/ /\ Existing(msg)
             /\ Continue(job[c].syncErrors, job[c].messagesAdded)
             /\ UNCHANGED message
          \/ /\ ~Existing(msg)
             /\ message' = Append(message, MessageRow(msg))
             /\ Continue(job[c].syncErrors, job[c].messagesAdded + 1)
    /\ UNCHANGED <<isRunning, blogPost, postMessage, nextPostId, envVars, restVars>>

----------------------------------------------------------------------------
(* Step 2 and 3: detectThreadBoundaries over the unclaimed rows, then the cap *)

\* findMany without the where clause
EveryMessage == DOMAIN message

Unclaimed == {i \in DOMAIN message : ~message[i].processedForPost}

\* findMany({where: {processedForPost: false}, orderBy: {sentAt: 'asc'}}):
\* every order of the unclaimed rows that is ascending in sentAt (the order
\* of rows with equal sentAt is not fixed by the query)
UnclaimedOrders ==
    LET n == Cardinality(Unclaimed) IN
    {[i \in 1..n |-> [id |-> f[i], chatId |-> message[f[i]].chatId,
                      senderId |-> message[f[i]].senderId,
                      sentAt |-> message[f[i]].sentAt]] :
        f \in {g \in [1..n -> Unclaimed] :
                 /\ \A i, j \in 1..n : i # j => g[i] # g[j]
                 /\ \A i \in 1..(n - 1) :
                      message[g[i]].sentAt <= message[g[i + 1]].sentAt}}

Min(a, b) == IF a < b THEN a ELSE b

\* the thread list without the cap
SliceAll(threads, n) == threads

\* the cap keeping the end of the list
SliceFromEnd(threads, n) ==
    SubSeq(threads, Len(threads) - Min(n, Len(threads)) + 1, Len(threads))

\* threads.slice(0, maxThreads)
Slice(threads, n) == SubSeq(threads, 1, Min(n, Len(threads)))

DetectStep(c) ==
    /\ job[c].pc = "detect"
    /\ \/ JobFailed(c, "detectThreadBoundaries")
       \/ \E msgs \in UnclaimedOrders :
            LET threads == detectThreadBoundaries(msgs, timeGapHours)
                todo == Slice(threads, maxThreads)
            IN IF todo = <<>>
               THEN ReleaseAndReturn(c, job[c].result)
               ELSE /\ job' = [job EXCEPT ![c].pc = "load",
                                          ![c].threadsToProcess = todo,
                                          ![c].k = 1]
                    /\ UNCHANGED isRunning
    /\ UNCHANGED <<dbVars, envVars, restVars>>

----------------------------------------------------------------------------
(* Step 4: the per-thread loop *)

\* the end of one loop iteration: next thread, or the end of the run
NextThread(c, res) ==
    IF job[c].k < Len(job[c].threadsToProcess)
    THEN /\ job' = [job EXCEPT ![c].pc = "load",
                               ![c].k = @ + 1,
                               ![c].result = res,
                               ![c].aiContent = NoContent,
                               ![c].post = 0]
         /\ UNCHANGED isRunning
    ELSE ReleaseAndReturn(c, res)

\* an inner catch that only logs
ThreadCatchSilent(c, reason) == NextThread(c, job[c].result)

\* no inner catch: a failing thread ends the run
ThreadCatchAborts(c, reason) ==
    ReleaseAndReturn(c, [job[c].result EXCEPT
                           !.errors = Append(@, ThreadFailed(reason))])

\* the inner catch
ThreadCatch(c, reason) ==
    NextThread(c, [job[c].result EXCEPT !.errors = Append(@, ThreadFailed(reason))])

\* the loop body completed, threadsProcessed alone incremented
ThreadSucceededNoDraftCount(c) ==
    NextThread(c, [job[c].result EXCEPT !.threadsProcessed = @ + 1])

\* the loop body completed
ThreadSucceeded(c) ==
    NextThread(c, [job[c].result EXCEPT !.threadsProcessed = @ + 1,
                                        !.draftsCreated = @ + 1])

CurrentThread(c) == job[c].threadsToProcess[job[c].k]

\* prisma.message.findMany({where: {id: {in: thread.messageIds}}})
LoadStep(c) ==
    /\ job[c].pc = "load"
    /\ \/ ThreadCatch(c, "findMany")
       \/ /\ job' = [job EXCEPT ![c].pc = "summarize"]
          /\ UNCHANGED isRunning
    /\ UNCHANGED <<dbVars, envVars, restVars>>

ModelResponses ==
    {"json", "fencedJson", "jsonWithoutFields", "notJson", "nonText",
     "networkError", "noCredential"}

\* a title and a content are either a string ("text") or undefined
AiPost == [title |-> "text", content |-> "text", fallback |-> FALSE]

UndefinedPost == [title |-> "undefined", content |-> "undefined", fallback |-> FALSE]

generateFallbackPost ==
    [title |-> "text", content |-> "text", fallback |-> TRUE]

generateBlogPost(response) ==
    CASE response \in {"json", "fencedJson"} -> AiPost
      [] response = "jsonWithoutFields" -> UndefinedPost
      [] OTHER -> generateFallbackPost

SummarizeStep(c) ==
    /\ job[c].pc = "summarize"
    /\ \E response \in ModelResponses :
         job' = [job EXCEPT ![c].pc = "create",
                            ![c].aiContent = generateBlogPost(response)]
    /\ UNCHANGED <<isRunning, dbVars, envVars, restVars>>

----------------------------------------------------------------------------
(* createDraftPost: blogPost.create with nested link rows, then updateMany *)

NoDuplicates(ids) == \A i, j \in DOMAIN ids : i # j => ids[i] # ids[j]

\* the constraints the nested create must satisfy: required columns,
\* PostMessage_messageId_fkey, PostMessage_postId_messageId_key
CreateAccepted(threadData, aiContent) ==
    /\ aiContent.title # "undefined"
    /\ aiContent.content # "undefined"
    /\ Range(threadData.messageIds) \subseteq DOMAIN message
    /\ NoDuplicates(threadData.messageIds)

PostRow(threadData, aiContent) ==
    [title |-> aiContent.title,
     content |-> aiContent.content,
     status |-> "DRAFT",
     threadStartTime |-> threadData.startTime,
     threadEndTime |-> threadData.endTime,
     messageCount |-> threadData.messageCount,
     publishedAt |-> "null"]

\* a nested create that links the first message only
LinkRowsFirstOnly(postId, ids) ==
    <<[postId |-> postId, messageId |-> Head(ids)]>>

\* a create without the nested messages
LinkRowsNone(postId, ids) == <<>>

\* messages: { create: messageIds.map(...) }: one link row per message
LinkRows(postId, ids) ==
    [i \in 1..Len(ids) |-> [postId |-> postId, messageId |-> ids[i]]]

\* prisma.blogPost.create: the Post row and its link rows, in one statement
CreateStep(c) ==
    /\ job[c].pc = "create"
    /\ \/ /\ ThreadCatch(c, "blogPost.create")
          /\ UNCHANGED dbVars
       \/ /\ CreateAccepted(CurrentThread(c), job[c].aiContent)
          /\ nextPostId <= MaxPosts
          /\ blogPost' = [p \in DOMAIN blogPost \cup {nextPostId} |->
                            IF p = nextPostId
                            THEN PostRow(CurrentThread(c), job[c].aiContent)
                            ELSE blogPost[p]]
          /\ postMessage' = postMessage \o
                              LinkRows(nextPostId, CurrentThread(c).messageIds)
          /\ nextPostId' = nextPostId + 1
          /\ job' = [job EXCEPT ![c].pc = "mark", ![c].post = nextPostId]
          /\ UNCHANGED <<isRunning, message>>
    /\ UNCHANGED <<envVars, restVars>>

\* updateMany claiming only the first id
MarkFirstOnly(ids) ==
    [i \in DOMAIN message |->
        IF i = Head(ids)
        THEN [message[i] EXCEPT !.processedForPost = TRUE] ELSE message[i]]

\* prisma.message.updateMany({where: {id: {in: ids}}, data: {processedForPost: true}})
MarkProcessed(ids) ==
    [i \in DOMAIN message |->
        IF i \in Range(ids)
        THEN [message[i] EXCEPT !.processedForPost = TRUE] ELSE message[i]]

MarkStep(c) ==
    /\ job[c].pc = "mark"
    /\ \/ /\ ThreadCatch(c, "message.updateMany")
          /\ UNCHANGED message
       \/ /\ message' = MarkProcessed(CurrentThread(c).messageIds)
          /\ ThreadSucceeded(c)
    /\ UNCHANGED <<blogPost, postMessage, nextPostId, envVars, restVars>>

----------------------------------------------------------------------------

Next ==
    \E c \in Callers :
        \/ Return(c)
        \/ NoPendingReturn /\ runGenerationJob(c)
        \/ NoPendingReturn /\ SyncFetch(c)
        \/ NoPendingReturn /\ SyncStore(c)
        \/ NoPendingReturn /\ DetectStep(c)
        \/ NoPendingReturn /\ LoadStep(c)
        \/ NoPendingReturn /\ SummarizeStep(c)
        \/ NoPendingReturn /\ CreateStep(c)
        \/ NoPendingReturn /\ MarkStep(c)

Spec == Init /\ [][Next]_vars

----------------------------------------------------------------------------
(* Runs one after another over a source that delivers nothing new *)

\* every message of the source is stored and unclaimed; a 1h threshold makes
\* each a thread of its own
InitLive ==
    /\ isRunning = FALSE
    /\ job = [c \in Callers |-> IdleJob]
    /\ message = [i \in DOMAIN Archive |-> MessageRow(Archive[i])]
    /\ blogPost = <<>>
    /\ postMessage = <<>>
    /\ nextPostId = 1
    /\ timeGapHours = 1
    /\ maxThreads \in MaxThreadsChoices
    /\ dIn = <<>>
    /\ dGap = 0
    /\ dOut = <<>>
    /\ dDone = FALSE
    /\ InitIdle

\* a resolved promise hands its value to the caller
Returns == \E c \in Callers : Return(c)

\* the event loop runs every continuation that is ready
Progress ==
    \E c \in Callers :
        \/ NoPendingReturn /\ SyncFetch(c)
        \/ NoPendingReturn /\ SyncStore(c)
        \/ NoPendingReturn /\ DetectStep(c)
        \/ NoPendingReturn /\ LoadStep(c)
        \/ NoPendingReturn /\ SummarizeStep(c)
        \/ NoPendingReturn /\ CreateStep(c)
        \/ NoPendingReturn /\ MarkStep(c)

\* cron.schedule fires again and again
Invoke == \E c \in Callers : NoPendingReturn /\ ~isRunning /\ runGenerationJob(c)

\* the database answers the query of the detector and threads are processed
DetectSucceeds == \E c \in Callers : DetectStep(c) /\ job'[c].pc = "load"

SpecLive ==
    /\ InitLive
    /\ [][Next]_vars
    /\ WF_vars(Returns)
    /\ SF_vars(Progress)
    /\ WF_vars(Invoke)
    /\ SF_vars(DetectSucceeds)

----------------------------------------------------------------------------
(* syncNewMessages called from two places at once, one step per await *)

SyncFailed(reason) == [kind |-> "Sync failed", reason |-> reason]

StoreFailed(reason) == [kind |-> "Failed to store message", reason |-> reason]

\* the message of the error prisma.message.create throws on Message_imessageId_key
UniqueConstraintFailed == "Unique constraint failed on the fields: (imessageId)"

syncRest ==
    <<isRunning, job, blogPost, postMessage, nextPostId, envVars, detectVars, req,
      authVars>>

\* entry, up to the await of getLastSyncTime
syncNewMessages(s) ==
    /\ sync[s].pc = "idle"
    /\ sync' = [sync EXCEPT ![s].pc = "fetch"]
    /\ UNCHANGED <<message, syncRest>>

\* getLastSyncTime and iMessageSDK.getMessages; a throw lands in the outer catch
getMessages(s) ==
    /\ sync[s].pc = "fetch"
    /\ \/ sync' = [sync EXCEPT ![s].pc = "done",
                               ![s].errors = <<SyncFailed("getMessages")>>]
       \/ \E b \in Batches :
            sync' = [sync EXCEPT ![s].pc = IF b = <<>> THEN "done" ELSE "find",
                                 ![s].batch = b]
    /\ UNCHANGED <<message, syncRest>>

\* the for loop moves to the next message, or falls through to the return
NextMessage(s, errs, added) ==
    sync' = [sync EXCEPT
               ![s].pc = IF Tail(sync[s].batch) = <<>> THEN "done" ELSE "find",
               ![s].batch = Tail(@),
               ![s].errors = errs,
               ![s].messagesAdded = added]

\* const existing = await prisma.message.findUnique(...)
findUnique(s) ==
    /\ sync[s].pc = "find"
    /\ IF Existing(Head(sync[s].batch))
       THEN NextMessage(s, sync[s].errors, sync[s].messagesAdded)
       ELSE sync' = [sync EXCEPT ![s].pc = "create"]
    /\ UNCHANGED <<message, syncRest>>

\* await prisma.message.create(...); messagesAdded++; a throw lands in the
\* per-message catch
createMessage(s) ==
    /\ sync[s].pc = "create"
    /\ LET msg == Head(sync[s].batch) IN
       \/ /\ NextMessage(s, Append(sync[s].errors, StoreFailed("message.create")),
                         sync[s].messagesAdded)
          /\ UNCHANGED message
       \/ /\ Existing(msg)
          /\ NextMessage(s, Append(sync[s].errors,
                                   StoreFailed(UniqueConstraintFailed)),
                         sync[s].messagesAdded)
          /\ UNCHANGED message
       \/ /\ ~Existing(msg)
          /\ message' = Append(message, MessageRow(msg))
          /\ NextMessage(s, sync[s].errors, sync[s].messagesAdded + 1)
    /\ UNCHANGED syncRest

\* return { messagesAdded, errors, lastSyncTime }, read by the caller
syncReturn(s) ==
    /\ sync[s].pc = "done"
    /\ sync' = [sync EXCEPT ![s] = IdleSync]
    /\ UNCHANGED <<message, syncRest>>

InitSync ==
    /\ InitMain
    /\ InitIdle
    /\ job = [c \in Callers |-> IdleJob]
    /\ timeGapHours = 2
    /\ maxThreads = 10
    /\ dIn = <<>>
    /\ dGap = 0
    /\ dOut = <<>>
    /\ dDone = FALSE

NextSync ==
    \E s \in Syncers :
        \/ syncNewMessages(s)
        \/ getMessages(s)
        \/ findUnique(s)
        \/ createMessage(s)
        \/ syncReturn(s)

SpecSync == InitSync /\ [][NextSync]_vars

----------------------------------------------------------------------------
(* syncNewMessages with no other call in between *)

\* an upsert: the row of a message already present is written again
StoreOneUpsert(table, msg) ==
    IF \E i \in DOMAIN table : table[i].imessageId = msg.id
    THEN [i \in DOMAIN table |->
            IF table[i].imessageId = msg.id THEN MessageRow(msg) ELSE table[i]]
    ELSE Append(table, MessageRow(msg))

\* one iteration of the store loop: findUnique, then create when absent
StoreOne(table, msg) ==
    IF \E i \in DOMAIN table : table[i].imessageId = msg.id
    THEN table
    ELSE Append(table, MessageRow(msg))

\* the store loop run to its end
RECURSIVE StoreAll(_, _)
StoreAll(table, batch) ==
    IF batch = <<>> THEN table
    ELSE StoreAll(StoreOne(table, Head(batch)), Tail(batch))

\* one whole call on the batch b: the fetch fails, or each delivered message
\* is stored unless the database fails on it
syncNewMessagesAlone(s, b) ==
    /\ sync[s].pc = "idle"
    /\ \/ /\ sync' = [sync EXCEPT ![s].pc = "done",
                                  ![s].errors = <<SyncFailed("getMessages")>>]
          /\ UNCHANGED message
       \/ \E failed \in SUBSET (1..Len(b)) :
            /\ message' = StoreAll(message,
                                   SubSeqOf(b, (1..Len(b)) \ failed, 1))
            /\ sync' = [sync EXCEPT
                          ![s].pc = "done",
                          ![s].messagesAdded = Len(message') - Len(message),
                          ![s].errors = [k \in 1..Cardinality(failed) |->
                                           StoreFailed("message.create")]]
    /\ UNCHANGED syncRest

----------------------------------------------------------------------------
(* BlogPostService called one request at a time: SpecCrud *)

PostIds == 1..MaxPosts

UpdateChoices ==
    {[title |-> "edited", content |-> "undefined"],
     [title |-> "undefined", content |-> "edited"],
     [title |-> "edited", content |-> "edited"]}

\* prisma.blogPost.findUnique({ where: { id } }): the status, or null
StatusOf(id) == IF id \in DOMAIN blogPost THEN blogPost[id].status ELSE "null"

InFlight == {u \in Clients : req[u].pc # "idle"}

crudRest == <<isRunning, job, envVars, detectVars, sync, authVars>>

\* the call settles: resolved ("ok") or rejected with an error message
Settle(u, outcome) ==
    req' = [req EXCEPT ![u] = [IdleReq EXCEPT !.pc = "done",
                                              !.op = req[u].op,
                                              !.id = req[u].id,
                                              !.outcome = outcome]]

\* the route handler has answered
Respond(u) ==
    /\ req[u].pc = "done"
    /\ req' = [req EXCEPT ![u] = IdleReq]
    /\ UNCHANGED <<dbVars, crudRest>>

\* a call that starts with findUnique
FindPost(u, op, id, updates) ==
    /\ req[u].pc = "idle"
    /\ req' = [req EXCEPT ![u] = [IdleReq EXCEPT !.pc = "found",
                                                 !.op = op,
                                                 !.id = id,
                                                 !.seen = StatusOf(id),
                                                 !.updates = updates]]
    /\ UNCHANGED <<dbVars, crudRest>>

updatePostFind(u, id, updates) == FindPost(u, "updatePost", id, updates)

publishPostFind(u, id) == FindPost(u, "publishPost", id, NoUpdates)

deletePostFind(u, id) == FindPost(u, "deletePost", id, NoUpdates)

\* Prisma leaves a column alone when its value is undefined
ApplyUpdates(row, updates) ==
    [row EXCEPT !.title = IF updates.title = "undefined" THEN @ ELSE updates.title,
                !.content = IF updates.content = "undefined" THEN @
                            ELSE updates.content]

\* updatePost with no status test
updatePostNoGuard(u) ==
    /\ req[u].pc = "found"
    /\ req[u].op = "updatePost"
    /\ IF req[u].id \notin DOMAIN blogPost
       THEN Settle(u, "Post not found") /\ UNCHANGED blogPost
       ELSE /\ blogPost' = [blogPost EXCEPT ![req[u].id] =
                               ApplyUpdates(@, req[u].updates)]
            /\ Settle(u, "ok")
    /\ UNCHANGED <<message, postMessage, nextPostId, crudRest>>

\* updatePost after findUnique: the guards, then prisma.blogPost.update
updatePost(u) ==
    /\ req[u].pc = "found"
    /\ req[u].op = "updatePost"
    /\ IF req[u].seen = "null"
       THEN Settle(u, "Post not found") /\ UNCHANGED blogPost
       ELSE IF req[u].seen # "DRAFT"
       THEN Settle(u, "Can only edit draft posts") /\ UNCHANGED blogPost
       ELSE IF req[u].id \notin DOMAIN blogPost
       THEN Settle(u, "Record to update not found") /\ UNCHANGED blogPost
       ELSE /\ blogPost' = [blogPost EXCEPT ![req[u].id] =
                               ApplyUpdates(@, req[u].updates)]
            /\ Settle(u, "ok")
    /\ UNCHANGED <<message, postMessage, nextPostId, crudRest>>

Published(row) == [row EXCEPT !.status = "PUBLISHED", !.publishedAt = "Date"]

\* publishPost with no status test
publishPostNoGuard(u) ==
    /\ req[u].pc = "found"
    /\ req[u].op = "publishPost"
    /\ IF req[u].id \notin DOMAIN blogPost
       THEN Settle(u, "Post not found") /\ UNCHANGED blogPost
       ELSE /\ blogPost' = [blogPost EXCEPT ![req[u].id] = Published(@)]
            /\ Settle(u, "ok")
    /\ UNCHANGED <<message, postMessage, nextPostId, crudRest>>

\* publishPost setting the status without stamping publishedAt
publishPostNoStamp(u) ==
    /\ req[u].pc = "found"
    /\ req[u].op = "publishPost"
    /\ IF req[u].seen # "DRAFT" \/ req[u].id \notin DOMAIN blogPost
       THEN Settle(u, "Can only publish draft posts") /\ UNCHANGED blogPost
       ELSE /\ blogPost' = [blogPost EXCEPT ![req[u].id].status = "PUBLISHED"]
            /\ Settle(u, "ok")
    /\ UNCHANGED <<message, postMessage, nextPostId, crudRest>>

\* publishPost rejecting published posts only
publishPostArchivedToo(u) ==
    /\ req[u].pc = "found"
    /\ req[u].op = "publishPost"
    /\ IF req[u].seen = "null"
       THEN Settle(u, "Post not found") /\ UNCHANGED blogPost
       ELSE IF req[u].seen = "PUBLISHED"
       THEN Settle(u, "Can only publish draft posts") /\ UNCHANGED blogPost
       ELSE IF req[u].id \notin DOMAIN blogPost
       THEN Settle(u, "Record to update not found") /\ UNCHANGED blogPost
       ELSE /\ blogPost' = [blogPost EXCEPT ![req[u].id] = Published(@)]
            /\ Settle(u, "ok")
    /\ UNCHANGED <<message, postMessage, nextPostId, crudRest>>

\* publishPost after findUnique: the guards, then prisma.blogPost.update
publishPost(u) ==
    /\ req[u].pc = "found"
    /\ req[u].op = "publishPost"
    /\ IF req[u].seen = "null"
       THEN Settle(u, "Post not found") /\ UNCHANGED blogPost
       ELSE IF req[u].seen # "DRAFT"
       THEN Settle(u, "Can only publish draft posts") /\ UNCHANGED blogPost
       ELSE IF req[u].id \notin DOMAIN blogPost
       THEN Settle(u, "Record to update not found") /\ UNCHANGED blogPost
       ELSE /\ blogPost' = [blogPost EXCEPT ![req[u].id] = Published(@)]
            /\ Settle(u, "ok")
    /\ UNCHANGED <<message, postMessage, nextPostId, crudRest>>

\* a delete that leaves the link rows of the post behind
DeleteRowNoCascade(id) ==
    /\ blogPost' = [p \in DOMAIN blogPost \ {id} |-> blogPost[p]]
    /\ postMessage' = postMessage

\* prisma.blogPost.delete: the row, and its link rows by ON DELETE CASCADE
DeleteRow(id) ==
    /\ blogPost' = [p \in DOMAIN blogPost \ {id} |-> blogPost[p]]
    /\ postMessage' = SelectSeq(postMessage, LAMBDA l : l.postId # id)

\* deletePost with no status test
deletePostNoGuard(u) ==
    /\ req[u].pc = "found"
    /\ req[u].op = "deletePost"
    /\ IF req[u].id \notin DOMAIN blogPost
       THEN Settle(u, "Post not found") /\ UNCHANGED <<blogPost, postMessage>>
       ELSE DeleteRow(req[u].id) /\ Settle(u, "ok")
    /\ UNCHANGED <<message, nextPostId, crudRest>>

\* deletePost after findUnique: the guards, then prisma.blogPost.delete
deletePost(u) ==
    /\ req[u].pc = "found"
    /\ req[u].op = "deletePost"
    /\ IF req[u].seen = "null"
       THEN Settle(u, "Post not found") /\ UNCHANGED <<blogPost, postMessage>>
       ELSE IF req[u].seen = "PUBLISHED"
       THEN /\ Settle(u, "Cannot delete published posts. Archive them instead.")
            /\ UNCHANGED <<blogPost, postMessage>>
       ELSE IF req[u].id \notin DOMAIN blogPost
       THEN /\ Settle(u, "Record to delete does not exist")
            /\ UNCHANGED <<blogPost, postMessage>>
       ELSE DeleteRow(req[u].id) /\ Settle(u, "ok")
    /\ UNCHANGED <<message, nextPostId, crudRest>>

ArchiveSettle(u, id, outcome) ==
    req' = [req EXCEPT ![u] = [IdleReq EXCEPT !.pc = "done",
                                              !.op = "archivePost",
                                              !.id = id,
                                              !.outcome = outcome]]

\* archivePost accepting published posts only
archivePostPublishedOnly(u, id) ==
    /\ req[u].pc = "idle"
    /\ IF id \in DOMAIN blogPost /\ blogPost[id].status = "PUBLISHED"
       THEN /\ blogPost' = [blogPost EXCEPT ![id].status = "ARCHIVED"]
            /\ ArchiveSettle(u, id, "ok")
       ELSE /\ ArchiveSettle(u, id, "Record to update not found")
            /\ UNCHANGED blogPost
    /\ UNCHANGED <<message, postMessage, nextPostId, crudRest>>

\* archivePost: one prisma.blogPost.update, no findUnique and no status test
archivePost(u, id) ==
    /\ req[u].pc = "idle"
    /\ IF id \in DOMAIN blogPost
       THEN /\ blogPost' = [blogPost EXCEPT ![id].status = "ARCHIVED"]
            /\ ArchiveSettle(u, id, "ok")
       ELSE /\ ArchiveSettle(u, id, "Record to update not found")
            /\ UNCHANGED blogPost
    /\ UNCHANGED <<message, postMessage, nextPostId, crudRest>>

\* createDraftPost on a detected thread, up to the await of blogPost.create
createDraftPostCreate(u) ==
    /\ req[u].pc = "idle"
    /\ \E msgs \in UnclaimedOrders :
         LET threads == detectThreadBoundaries(msgs, timeGapHours) IN
         \E t \in DOMAIN threads :
            \/ /\ req' = [req EXCEPT ![u] =
                            [IdleReq EXCEPT !.pc = "done",
                                            !.op = "createDraftPost",
                                            !.outcome = "blogPost.create failed"]]
               /\ UNCHANGED dbVars
            \/ /\ CreateAccepted(threads[t], AiPost)
               /\ nextPostId <= MaxPosts
               /\ blogPost' = [p \in DOMAIN blogPost \cup {nextPostId} |->
                                 IF p = nextPostId THEN PostRow(threads[t], AiPost)
                                 ELSE blogPost[p]]
               /\ postMessage' = postMessage \o
                                   LinkRows(nextPostId, threads[t].messageIds)
               /\ nextPostId' = nextPostId + 1
               /\ req' = [req EXCEPT ![u] =
                            [IdleReq EXCEPT !.pc = "created",
                                            !.op = "createDraftPost",
                                            !.id = nextPostId,
                                            !.thread = threads[t]]]
               /\ UNCHANGED message
    /\ UNCHANGED crudRest

\* createDraftPost: prisma.message.updateMany, then return post
createDraftPostMark(u) ==
    /\ req[u].pc = "created"
    /\ \/ /\ Settle(u, "message.updateMany failed")
          /\ UNCHANGED message
       \/ /\ message' = MarkProcessed(req[u].thread.messageIds)
          /\ Settle(u, "ok")
    /\ UNCHANGED <<blogPost, postMessage, nextPostId, crudRest>>

\* the two chat-1 rows are synced and unclaimed: one thread of two messages
\* under a 2h threshold, two threads of one message under a 1h threshold
InitCrud ==
    /\ isRunning = FALSE
    /\ job = [c \in Callers |-> IdleJob]
    /\ message = [i \in 1..2 |-> MessageRow(Archive[i])]
    /\ blogPost = <<>>
    /\ postMessage = <<>>
    /\ nextPostId = 1
    /\ timeGapHours \in GapHoursChoices
    /\ maxThreads = 10
    /\ dIn = <<>>
    /\ dGap = 0
    /\ dOut = <<>>
    /\ dDone = FALSE
    /\ InitIdle

\* requests are served one at a time here, so one client is enough
CrudClients == {"u1"}

\* the source holds nothing newer than the rows InitCrud has synced: every
\* delivery is a re-delivery
Redeliveries == {SubSeqOf(Archive, keep, 1) : keep \in SUBSET (1..2)}

Quiet == InFlight = {} /\ \A s \in Syncers : sync[s].pc = "idle"

NextCrud ==
    \/ \E u \in CrudClients :
        \/ Respond(u)
        \/ Quiet /\ createDraftPostCreate(u)
        \/ createDraftPostMark(u)
        \/ Quiet /\ \E id \in PostIds, updates \in UpdateChoices :
                       updatePostFind(u, id, updates)
        \/ updatePost(u)
        \/ Quiet /\ \E id \in PostIds : publishPostFind(u, id)
        \/ publishPost(u)
        \/ Quiet /\ \E id \in PostIds : deletePostFind(u, id)
        \/ deletePost(u)
        \/ Quiet /\ \E id \in PostIds : archivePost(u, id)
    \/ Quiet /\ \E b \in Redeliveries : syncNewMessagesAlone("trigger", b)
    \/ syncReturn("trigger")

SpecCrud == InitCrud /\ [][NextCrud]_vars

----------------------------------------------------------------------------
(* BlogPostService called by two requests at once: SpecRace *)

\* the thread of the first message of the source
FirstThread ==
    NewThread([id |-> 1, chatId |-> Archive[1].chatId,
               senderId |-> Archive[1].sender, sentAt |-> Archive[1].date])

\* createDraftPost has drafted post 1 from the first message
InitRace ==
    /\ isRunning = FALSE
    /\ job = [c \in Callers |-> IdleJob]
    /\ message = <<[MessageRow(Archive[1]) EXCEPT !.processedForPost = TRUE]>>
    /\ blogPost = <<PostRow(FirstThread, AiPost)>>
    /\ postMessage = LinkRows(1, FirstThread.messageIds)
    /\ nextPostId = 2
    /\ timeGapHours = 2
    /\ maxThreads = 10
    /\ dIn = <<>>
    /\ dGap = 0
    /\ dOut = <<>>
    /\ dDone = FALSE
    /\ InitIdle

\* express serves the route handlers of two requests interleaved at every
\* await
NextRace ==
    \E u \in Clients :
        \/ Respond(u)
        \/ \E id \in PostIds, updates \in UpdateChoices :
              updatePostFind(u, id, updates)
        \/ updatePost(u)
        \/ \E id \in PostIds : publishPostFind(u, id)
        \/ publishPost(u)
        \/ \E id \in PostIds : deletePostFind(u, id)
        \/ deletePost(u)
        \/ \E id \in PostIds : archivePost(u, id)

SpecRace == InitRace /\ [][NextRace]_vars

----------------------------------------------------------------------------
(* Authentication: POST /auth/register, /auth/login, /auth/refresh *)

Emails == {"a@example.com", "b@example.com"}

\* what a request body can carry as email: well formed, malformed, missing
EmailInputs == Emails \cup {"not-an-email", ""}

Passwords == {"password123", "wrongpassword"}

PasswordInputs == Passwords \cup {"short", ""}

\* /^[^\s@]+@[^\s@]+\.[^\s@]+$/ on the inputs above
isValidEmail(email) == email \in Emails

PasswordLength(password) ==
    CASE password = "password123" -> 11
      [] password = "wrongpassword" -> 13
      [] password = "short" -> 5
      [] OTHER -> 0

isValidPassword(password) == password # "" /\ PasswordLength(password) >= 6

\* bcrypt.hash and bcrypt.compare, the salt left out
Hash(password) == <<"bcrypt", password>>

Compare(password, passwordHash) == passwordHash = Hash(password)

JWT_SECRET == "JWT_SECRET"

generateAccessToken(userId, email) ==
    [userId |-> userId, email |-> email, expiresIn |-> "15m", key |-> JWT_SECRET]

generateRefreshToken(userId) ==
    [userId |-> userId, email |-> "undefined", expiresIn |-> "7d",
     key |-> JWT_SECRET]

\* a string that is no JWT, and a JWT signed with another key
InvalidToken ==
    [userId |-> 0, email |-> "undefined", expiresIn |-> "none", key |-> "none"]

ForgedToken ==
    [userId |-> 1, email |-> "undefined", expiresIn |-> "7d", key |-> "other"]

\* what a client can present: nothing, garbage, a forgery, or a token it
\* was handed
TokenInputs == issued \cup {NoToken, InvalidToken, ForgedToken}

\* jwt.verify(token, JWT_SECRET): the error thrown, or "ok"
verifyRefreshToken(token, expired) ==
    IF token.key # JWT_SECRET THEN "JsonWebTokenError"
    ELSE IF expired THEN "TokenExpiredError"
    ELSE "ok"

ErrorResponse(status, error) ==
    [status |-> status, error |-> error, accessToken |-> NoToken,
     refreshToken |-> NoToken]

\* AuthResponse: { accessToken, refreshToken, user }
AuthResponse(status, userId, email) ==
    [status |-> status, error |-> "none",
     accessToken |-> generateAccessToken(userId, email),
     refreshToken |-> generateRefreshToken(userId)]

\* RefreshResponse: { accessToken }
RefreshResponse(userId, email) ==
    [status |-> 200, error |-> "none",
     accessToken |-> generateAccessToken(userId, email),
     refreshToken |-> NoToken]

UserByEmail(email) == {i \in DOMAIN user : user[i].email = email}

authRest == <<isRunning, job, dbVars, envVars, detectVars, req, sync>>

\* res.status(...).json(...): the tokens in the body reach the client
Answer(u, fields, response) ==
    /\ auth' = [auth EXCEPT ![u] = [fields EXCEPT !.pc = "done",
                                                  !.response = response]]
    /\ issued' = issued \cup
                   ({response.accessToken, response.refreshToken} \ {NoToken})

\* register without the look-up of the email
registerFindNoCheck(u) ==
    /\ auth[u].pc = "idle"
    /\ \E email \in EmailInputs, password \in PasswordInputs :
         LET fields == [IdleAuth EXCEPT !.op = "register", !.email = email,
                                        !.password = password] IN
         IF ~isValidEmail(email)
         THEN Answer(u, fields, ErrorResponse(400, "Invalid email format"))
         ELSE IF ~isValidPassword(password)
         THEN Answer(u, fields,
                     ErrorResponse(400, "Password must be at least 6 characters"))
         ELSE /\ auth' = [auth EXCEPT ![u] = [fields EXCEPT !.pc = "create"]]
              /\ UNCHANGED issued
    /\ UNCHANGED <<user, authRest>>

\* the route's validation, then register up to the await of findUnique and
\* its answer
registerFind(u) ==
    /\ auth[u].pc = "idle"
    /\ \E email \in EmailInputs, password \in PasswordInputs :
         LET fields == [IdleAuth EXCEPT !.op = "register", !.email = email,
                                        !.password = password] IN
         IF ~isValidEmail(email)
         THEN Answer(u, fields, ErrorResponse(400, "Invalid email format"))
         ELSE IF ~isValidPassword(password)
         THEN Answer(u, fields,
                     ErrorResponse(400, "Password must be at least 6 characters"))
         ELSE IF UserByEmail(email) # {}
         THEN Answer(u, fields, ErrorResponse(409, "Email already exists"))
         ELSE /\ auth' = [auth EXCEPT ![u] = [fields EXCEPT !.pc = "create"]]
              /\ UNCHANGED issued
    /\ UNCHANGED <<user, authRest>>

\* bcrypt.hash, prisma.user.create under the unique index on email, tokens
registerCreate(u) ==
    /\ auth[u].pc = "create"
    /\ IF UserByEmail(auth[u].email) # {}
       THEN /\ Answer(u, auth[u], ErrorResponse(500, "Internal server error"))
            /\ UNCHANGED user
       ELSE /\ user' = Append(user, [email |-> auth[u].email,
                                     passwordHash |-> Hash(auth[u].password)])
            /\ Answer(u, auth[u],
                      AuthResponse(201, Len(user) + 1, auth[u].email))
    /\ UNCHANGED authRest

\* login that tells an unknown email apart
loginFindTellsUnknown(u) ==
    /\ auth[u].pc = "idle"
    /\ \E email \in EmailInputs, password \in PasswordInputs :
         LET fields == [IdleAuth EXCEPT !.op = "login", !.email = email,
                                        !.password = password] IN
         IF email = "" \/ password = ""
         THEN Answer(u, fields,
                     ErrorResponse(400, "Email and password are required"))
         ELSE IF UserByEmail(email) = {}
         THEN Answer(u, fields, ErrorResponse(404, "User not found"))
         ELSE /\ auth' = [auth EXCEPT ![u] =
                            [fields EXCEPT !.pc = "compare",
                                           !.found = CHOOSE i \in UserByEmail(email) : TRUE]]
              /\ UNCHANGED issued
    /\ UNCHANGED <<user, authRest>>

\* the route's validation, then login up to the await of findUnique and its
\* answer
loginFind(u) ==
    /\ auth[u].pc = "idle"
    /\ \E email \in EmailInputs, password \in PasswordInputs :
         LET fields == [IdleAuth EXCEPT !.op = "login", !.email = email,
                                        !.password = password] IN
         IF email = "" \/ password = ""
         THEN Answer(u, fields,
                     ErrorResponse(400, "Email and password are required"))
         ELSE IF UserByEmail(email) = {}
         THEN Answer(u, fields, ErrorResponse(401, "Invalid credentials"))
         ELSE /\ auth' = [auth EXCEPT ![u] =
                            [fields EXCEPT !.pc = "compare",
                                           !.found = CHOOSE i \in UserByEmail(email) : TRUE]]
              /\ UNCHANGED issued
    /\ UNCHANGED <<user, authRest>>

\* bcrypt.compare against the row read, then the tokens
loginCompare(u) ==
    /\ auth[u].pc = "compare"
    /\ LET row == user[auth[u].found] IN
       IF ~Compare(auth[u].password, row.passwordHash)
       THEN Answer(u, auth[u], ErrorResponse(401, "Invalid credentials"))
       ELSE Answer(u, auth[u], AuthResponse(200, auth[u].found, row.email))
    /\ UNCHANGED <<user, authRest>>

\* the route's validation and verifyRefreshToken, up to the await of findUnique
refreshVerify(u) ==
    /\ auth[u].pc = "idle"
    /\ \E token \in TokenInputs, expired \in BOOLEAN :
         LET fields == [IdleAuth EXCEPT !.op = "refresh", !.token = token] IN
         IF token = NoToken
         THEN Answer(u, fields, ErrorResponse(400, "Refresh token is required"))
         ELSE IF verifyRefreshToken(token, expired) # "ok"
         THEN Answer(u, fields, ErrorResponse(401, "Invalid or expired token"))
         ELSE /\ auth' = [auth EXCEPT ![u] =
                            [fields EXCEPT !.pc = "lookup",
                                           !.found = token.userId]]
              /\ UNCHANGED issued
    /\ UNCHANGED <<user, authRest>>

\* findUnique by decoded.userId, then the new access token
refreshFind(u) ==
    /\ auth[u].pc = "lookup"
    /\ IF auth[u].found \notin DOMAIN user
       THEN Answer(u, auth[u], ErrorResponse(500, "Internal server error"))
       ELSE Answer(u, auth[u],
                   RefreshResponse(auth[u].found, user[auth[u].found].email))
    /\ UNCHANGED <<user, authRest>>

\* the client has read the answer
AuthDone(u) ==
    /\ auth[u].pc = "done"
    /\ auth' = [auth EXCEPT ![u] = IdleAuth]
    /\ UNCHANGED <<user, issued, authRest>>

InitAuth ==
    /\ InitMain
    /\ InitIdle
    /\ job = [c \in Callers |-> IdleJob]
    /\ timeGapHours = 2
    /\ maxThreads = 10
    /\ dIn = <<>>
    /\ dGap = 0
    /\ dOut = <<>>
    /\ dDone = FALSE

NextAuth ==
    \E u \in AuthClients :
        \/ registerFind(u)
        \/ registerCreate(u)
        \/ loginFind(u)
        \/ loginCompare(u)
        \/ refreshVerify(u)
        \/ refreshFind(u)
        \/ AuthDone(u)

SpecAuth == InitAuth /\ [][NextAuth]_vars

----------------------------------------------------------------------------
(* Claims on the orchestrator *)

Active == {c \in Callers : job[c].pc \in ActivePcs}

HasError(res, kind) == \E i \in DOMAIN res.errors : res.errors[i].kind = kind

\* C1: an invocation made while a run is pending returns at once with zero
\* counts and exactly one 'Job already running' error, touches no table and
\* leaves the pending run and the guard as they were.
C1_OverlapRejected ==
    [][\A c \in Callers :
          (job[c].pc = "idle" /\ job'[c].pc # "idle" /\ isRunning) =>
              /\ job'[c].pc = "returned"
              /\ job'[c].result = RejectedResult
              /\ \A d \in Callers \ {c} : job'[d] = job[d]
              /\ UNCHANGED <<isRunning, dbVars>>]_vars

C1_Witness ==
    \E c, d \in Callers :
        /\ job[c].pc = "returned"
        /\ job[c].result = RejectedResult
        /\ job[d].pc \in LoopPcs
        /\ job[d].result.errors # <<>>

\* C2: at most one invocation is past the guard at any time, whichever of
\* the cron and manual triggers made it, and the guard is set whenever one is.
C2_SingleFlight ==
    /\ Cardinality(Active) <= 1
    /\ Active # {} => isRunning

C2_Witness ==
    /\ job["cron"].pc = "returned"
    /\ job["cron"].result = RejectedResult
    /\ job["manual"].pc = "store"
    /\ isRunning

\* C3: every step by which an invocation that acquired the guard leaves the
\* run releases the guard and returns; an invocation made while no run is
\* active is accepted.
C3_GuardReleased ==
    [][\A c \in Callers :
          /\ (job[c].pc \in ActivePcs /\ job'[c].pc \notin ActivePcs) =>
                 (isRunning' = FALSE /\ job'[c].pc = "returned")
          /\ (job[c].pc = "idle" /\ job'[c].pc # "idle" /\ Active = {}) =>
                 job'[c].pc = "sync"]_vars

C3_Witness ==
    \E c \in Callers :
        /\ job[c].pc = "returned"
        /\ HasError(job[c].result, "Job failed")
        /\ ~isRunning
        /\ blogPost # <<>>

IsJobResult(res) ==
    /\ DOMAIN res = {"threadsProcessed", "draftsCreated", "errors", "timestamp"}
    /\ res.threadsProcessed \in Nat
    /\ res.draftsCreated \in Nat
    /\ DOMAIN res.errors = 1..Len(res.errors)

\* C4: an invocation is idle, at one of its suspension points, or has
\* returned a JobResult; it never ends by throwing.
C4_NeverThrows ==
    \A c \in Callers :
        /\ job[c].pc \in {"idle", "returned"} \cup ActivePcs
        /\ job[c].pc = "returned" => IsJobResult(job[c].result)

C4_Witness ==
    \E c \in Callers :
        /\ job[c].pc = "returned"
        /\ HasError(job[c].result, "Failed to store message")
        /\ HasError(job[c].result, "Thread processing failed")
        /\ HasError(job[c].result, "Job failed") = FALSE
        /\ job[c].result.draftsCreated = 1

FailureReasons == {"findMany", "blogPost.create", "message.updateMany"}

\* C5: a step of the per-thread loop either stays on the current thread
\* with the result untouched, or leaves it for the next thread in list order
\* (for the end of the run after the last one) having either incremented
\* both counts or appended exactly one 'Thread processing failed' entry.
C5_ThreadIsolation ==
    [][\A c \in Callers :
          (job[c].pc \in LoopPcs /\ job'[c] # job[c]) =>
              LET k == job[c].k
                  n == Len(job[c].threadsToProcess)
                  r == job[c].result
                  r2 == job'[c].result
                  stays ==
                      /\ job'[c].k = k
                      /\ job'[c].threadsToProcess = job[c].threadsToProcess
                      /\ r2 = r
                      /\ <<job[c].pc, job'[c].pc>> \in
                            {<<"load", "summarize">>, <<"summarize", "create">>,
                             <<"create", "mark">>}
                  moved ==
                      \/ /\ k < n
                         /\ job'[c].pc = "load"
                         /\ job'[c].k = k + 1
                         /\ job'[c].threadsToProcess = job[c].threadsToProcess
                      \/ /\ k = n
                         /\ job'[c].pc = "returned"
                  failed ==
                      \E reason \in FailureReasons :
                          r2 = [r EXCEPT !.errors = Append(@, ThreadFailed(reason))]
                  succeeded ==
                      /\ job[c].pc = "mark"
                      /\ r2 = [r EXCEPT !.threadsProcessed = @ + 1,
                                        !.draftsCreated = @ + 1]
              IN stays \/ (moved /\ (failed \/ succeeded))]_vars

C5_Witness ==
    \E c \in Callers :
        /\ job[c].pc = "mark"
        /\ job[c].k = 2
        /\ HasError(job[c].result, "Thread processing failed")
        /\ job[c].result.draftsCreated = 0

----------------------------------------------------------------------------
(* Claims on createDraftPost *)

LinksOf(links, p) == {i \in DOMAIN links : links[i].postId = p}

\* C6: a createDraftPost call that fails leaves no Post row, no link row and
\* no claimed flag of its own behind.
C6_AllOrNothing ==
    [][\A c \in Callers :
          (job[c].pc \in {"create", "mark"}
             /\ Len(job'[c].result.errors) > Len(job[c].result.errors)) =>
              /\ message' = message
              /\ job[c].pc = "create" => UNCHANGED <<blogPost, postMessage>>
              /\ job[c].pc = "mark" =>
                    /\ job[c].post \notin DOMAIN blogPost'
                    /\ LinksOf(postMessage', job[c].post) = {}]_vars

PostsLinking(m) ==
    {postMessage[i].postId : i \in {j \in DOMAIN postMessage :
                                       postMessage[j].messageId = m}}

\* C7: in every reachable state each message is linked to at most one Post.
C7_NoDoubleClaim ==
    \A m \in DOMAIN message : Cardinality(PostsLinking(m)) <= 1

\* C8: when createDraftPost succeeds the new Post is a draft, it has exactly
\* one link row to each id of thread.messageIds and to nothing else, and
\* every one of those messages is claimed.
C8_DraftLinkedAndClaimed ==
    [][\A c \in Callers :
          (job[c].pc = "mark"
             /\ job'[c].result.draftsCreated = job[c].result.draftsCreated + 1) =>
              LET p == job[c].post
                  ids == Range(CurrentThread(c).messageIds)
              IN /\ p \in DOMAIN blogPost'
                 /\ blogPost'[p].status = "DRAFT"
                 /\ {postMessage'[i].messageId : i \in LinksOf(postMessage', p)} = ids
                 /\ \A m \in ids :
                      Cardinality({i \in LinksOf(postMessage', p) :
                                     postMessage'[i].messageId = m}) = 1
                 /\ \A m \in ids : message'[m].processedForPost]_vars

C8_Witness ==
    \E c \in Callers, p \in DOMAIN blogPost :
        /\ job[c].pc = "returned"
        /\ job[c].result.draftsCreated = 1
        /\ blogPost[p].status = "DRAFT"
        /\ Cardinality(LinksOf(postMessage, p)) = 2
        /\ \A i \in LinksOf(postMessage, p) :
             message[postMessage[i].messageId].processedForPost

----------------------------------------------------------------------------
(* Claims on the detector *)

Flatten(threads) ==
    LET RECURSIVE F(_)
        F(k) == IF k = 0 THEN <<>> ELSE F(k - 1) \o threads[k].messageIds
    IN F(Len(threads))

InputIds == {dIn[i].id : i \in DOMAIN dIn}

PosOf(id) ==
    IF \E i \in DOMAIN dIn : dIn[i].id = id
    THEN CHOOSE i \in DOMAIN dIn : dIn[i].id = id ELSE 0

\* C9: the returned threads are a strict partition of the input ids: every
\* input id is in exactly one thread, exactly once, no foreign id appears,
\* and ids inside a thread keep the input order.
C9_Partition ==
    dDone =>
        LET all == Flatten(dOut) IN
        /\ Range(all) = InputIds
        /\ Len(all) = Len(dIn)
        /\ \A t \in DOMAIN dOut :
             /\ Len(dOut[t].messageIds) >= 1
             /\ \A a, b \in DOMAIN dOut[t].messageIds :
                  a < b => PosOf(dOut[t].messageIds[a]) < PosOf(dOut[t].messageIds[b])

C9_Witness ==
    /\ dDone
    /\ Len(dIn) = 3
    /\ Len(dOut) = 2
    /\ dIn[1].id = 3

ThreadOf(id) ==
    IF \E t \in DOMAIN dOut : id \in Range(dOut[t].messageIds)
    THEN CHOOSE t \in DOMAIN dOut : id \in Range(dOut[t].messageIds) ELSE 0

\* C10: messages adjacent in the scan order with the same conversation id
\* are in the same thread exactly when their time difference is strictly
\* below the threshold.
C10_StrictGap ==
    dDone =>
        \A i \in 1..(Len(dIn) - 1) :
            dIn[i].chatId = dIn[i + 1].chatId =>
                ((ThreadOf(dIn[i].id) = ThreadOf(dIn[i + 1].id))
                   <=> (dIn[i + 1].sentAt - dIn[i].sentAt < dGap * HourMs))

C10_Witness ==
    /\ dDone
    /\ dGap = 2
    /\ Len(dIn) = 3
    /\ \A i \in 1..3 : dIn[i].chatId = "chat-1"
    /\ dIn[2].sentAt - dIn[1].sentAt = 2 * HourMs - 1
    /\ dIn[3].sentAt - dIn[2].sentAt = 2 * HourMs
    /\ ThreadOf(dIn[1].id) = ThreadOf(dIn[2].id)
    /\ ThreadOf(dIn[2].id) # ThreadOf(dIn[3].id)

MsgOf(id) == dIn[PosOf(id)]

\* C11: messages adjacent in the scan order with different conversation ids
\* are in different threads whatever their time gap, and every member of a
\* thread has the thread's conversation id.
C11_ChatBoundary ==
    dDone =>
        /\ \A i \in 1..(Len(dIn) - 1) :
             dIn[i].chatId # dIn[i + 1].chatId =>
                 ThreadOf(dIn[i].id) # ThreadOf(dIn[i + 1].id)
        /\ \A t \in DOMAIN dOut :
             \A id \in Range(dOut[t].messageIds) :
                 PosOf(id) # 0 /\ MsgOf(id).chatId = dOut[t].chatId

C11_Witness ==
    /\ dDone
    /\ dGap = 2
    /\ Len(dIn) = 2
    /\ dIn[1].chatId # dIn[2].chatId
    /\ dIn[1].sentAt = dIn[2].sentAt
    /\ Len(dOut) = 2

----------------------------------------------------------------------------
(* Claims on the cap *)

\* C12: a run retains and attempts at most maxThreads threads and its counts
\* never exceed maxThreads; with maxThreads = 1 a run whose thread succeeds
\* returns threadsProcessed = draftsCreated = 1 and leaves every message
\* outside that thread as it was (the other threads stay unclaimed).
C12_CapPerRun ==
    [][\A c \in Callers :
          /\ job'[c].pc \in LoopPcs =>
                /\ Len(job'[c].threadsToProcess) <= maxThreads
                /\ job'[c].k <= Len(job'[c].threadsToProcess)
          /\ (job[c].pc \in ActivePcs /\ job'[c].pc = "returned") =>
                /\ job'[c].result.threadsProcessed <= maxThreads
                /\ job'[c].result.draftsCreated <= maxThreads
          /\ (job[c].pc = "mark" /\ maxThreads = 1
                /\ job'[c].result.draftsCreated > job[c].result.draftsCreated) =>
                /\ job'[c].pc = "returned"
                /\ job'[c].result.threadsProcessed = 1
                /\ job'[c].result.draftsCreated = 1
                /\ \A m \in DOMAIN message \ Range(CurrentThread(c).messageIds) :
                     message'[m] = message[m]]_vars

C12_Witness ==
    \E c \in Callers :
        /\ maxThreads = 1
        /\ job[c].pc = "returned"
        /\ job[c].result.draftsCreated = 1
        /\ job[c].result.threadsProcessed = 1
        /\ job[c].result.errors = <<>>
        /\ Cardinality(DOMAIN blogPost) = 1
        /\ Unclaimed # {}
        /\ Cardinality(Unclaimed) < Len(message)

----------------------------------------------------------------------------
(* Claims on the status guards *)

Settles(u, op) ==
    /\ req[u].op = op
    /\ req[u].pc = "found"
    /\ req'[u].pc = "done"

\* C13: publishPost on an existing post that is not a draft fails and leaves
\* the post table (status and publishedAt included) as it was; on a draft it
\* succeeds, the status becomes published and publishedAt is stamped.
C13_PublishGuard ==
    [][\A u \in Clients :
          (Settles(u, "publishPost") /\ req[u].id \in DOMAIN blogPost) =>
              IF blogPost[req[u].id].status # "DRAFT"
              THEN /\ req'[u].outcome = "Can only publish draft posts"
                   /\ blogPost' = blogPost
              ELSE /\ req'[u].outcome = "ok"
                   /\ blogPost'[req[u].id].status = "PUBLISHED"
                   /\ blogPost'[req[u].id].publishedAt # "null"]_vars

C13_Witness ==
    \E u \in Clients :
        /\ req[u].pc = "done"
        /\ req[u].op = "publishPost"
        /\ req[u].outcome = "Can only publish draft posts"
        /\ req[u].id \in DOMAIN blogPost
        /\ blogPost[req[u].id].status = "PUBLISHED"

\* C14: updatePost on an existing post that is not a draft fails with the
\* validation error and leaves the post table as it was; on a draft it
\* applies the updates; no step changes the title or content of a post that
\* is published or archived.
C14_UpdateGuard ==
    [][/\ \A u \in Clients :
            (Settles(u, "updatePost") /\ req[u].id \in DOMAIN blogPost) =>
                IF blogPost[req[u].id].status # "DRAFT"
                THEN /\ req'[u].outcome = "Can only edit draft posts"
                     /\ blogPost' = blogPost
                ELSE /\ req'[u].outcome = "ok"
                     /\ blogPost'[req[u].id] =
                           ApplyUpdates(blogPost[req[u].id], req[u].updates)
       /\ \A p \in DOMAIN blogPost \cap DOMAIN blogPost' :
            blogPost[p].status # "DRAFT" =>
                /\ blogPost'[p].title = blogPost[p].title
                /\ blogPost'[p].content = blogPost[p].content]_vars

C14_Witness ==
    \E u \in Clients :
        /\ req[u].pc = "done"
        /\ req[u].op = "updatePost"
        /\ req[u].outcome = "Can only edit draft posts"
        /\ req[u].id \in DOMAIN blogPost
        /\ blogPost[req[u].id].status = "ARCHIVED"
        /\ blogPost[req[u].id].title = "edited"

\* C15: deletePost on a published post fails and leaves the post and its
\* link rows in place.
C15_DeleteGuard ==
    [][\A u \in Clients :
          (Settles(u, "deletePost") /\ req[u].id \in DOMAIN blogPost
             /\ blogPost[req[u].id].status = "PUBLISHED") =>
              /\ req'[u].outcome = "Cannot delete published posts. Archive them instead."
              /\ blogPost' = blogPost
              /\ postMessage' = postMessage]_vars

C15_Witness ==
    \E u \in Clients :
        /\ req[u].pc = "done"
        /\ req[u].op = "deletePost"
        /\ req[u].outcome = "Cannot delete published posts. Archive them instead."
        /\ req[u].id \in DOMAIN blogPost
        /\ LinksOf(postMessage, req[u].id) # {}

PublishedAtSet(p) == blogPost[p].publishedAt # "null"

\* C16 as stated: publishedAt is set exactly when the status is published.
C16_PublishedAtIffPublished ==
    \A p \in DOMAIN blogPost :
        PublishedAtSet(p) <=> blogPost[p].status = "PUBLISHED"

\* C16 amended: publishedAt is set when the status is published and null
\* when it is draft; archiving leaves publishedAt as it was.
C16_PublishedAtAmended ==
    /\ [](\A p \in DOMAIN blogPost :
            /\ blogPost[p].status = "PUBLISHED" => PublishedAtSet(p)
            /\ blogPost[p].status = "DRAFT" => ~PublishedAtSet(p))
    /\ [][\A p \in DOMAIN blogPost \cap DOMAIN blogPost' :
            blogPost'[p].status = "ARCHIVED" =>
                blogPost'[p].publishedAt = blogPost[p].publishedAt]_vars

C16_Witness ==
    \E p \in DOMAIN blogPost :
        /\ blogPost[p].status = "ARCHIVED"
        /\ PublishedAtSet(p)

----------------------------------------------------------------------------
(* Claims on message ingestion *)

UniqueIds ==
    \A i, j \in DOMAIN message :
        message[i].imessageId = message[j].imessageId => i = j

\* the call of s is handling a message that is already in the table
Redelivered(s) ==
    /\ sync[s].pc \in {"find", "create"}
    /\ Existing(Head(sync[s].batch))

\* C18: under any interleaving of syncNewMessages calls no two Message rows
\* share an imessageId, and the step that handles an already ingested message
\* creates no row, leaves messagesAdded as it was and pushes no error entry
\* (a database fault apart)
C18_SyncIdempotent ==
    /\ [](UniqueIds)
    /\ [][\A s \in Syncers :
            (Redelivered(s) /\ sync'[s] # sync[s]) =>
                /\ message' = message
                /\ sync'[s].messagesAdded = sync[s].messagesAdded
                /\ \/ sync'[s].errors = sync[s].errors
                   \/ sync'[s].errors =
                        Append(sync[s].errors, StoreFailed("message.create"))]_vars

\* the unique index alone: holds under every interleaving
C18_UniqueIdsOnly == UniqueIds

\* a call returns with a message refused by the unique index
C18_Witness ==
    \E s \in Syncers :
        /\ sync[s].pc = "done"
        /\ \E i \in DOMAIN sync[s].errors :
              sync[s].errors[i] = StoreFailed(UniqueConstraintFailed)

\* some link row joins post p and message i
Linked(links, p, i) ==
    \E k \in DOMAIN links : links[k] = [postId |-> p, messageId |-> i]

\* C19: processedForPost of a message changes only from false to true, and
\* only in the step of a createDraftPost call whose Post row exists and is
\* linked to that message; rows are never removed, so it changes at most once.
C19_ClaimedOnce ==
    [][\A i \in DOMAIN message :
          /\ i \in DOMAIN message'
          /\ message'[i].imessageId = message[i].imessageId
          /\ message'[i].processedForPost # message[i].processedForPost =>
                /\ ~message[i].processedForPost
                /\ message'[i].processedForPost
                /\ \E u \in Clients :
                      /\ req[u].op = "createDraftPost"
                      /\ req[u].pc = "created"
                      /\ req[u].id \in DOMAIN blogPost'
                      /\ Linked(postMessage', req[u].id, i)]_vars

\* a claimed message has been delivered again, after its post was deleted
C19_Witness ==
    /\ sync["trigger"].pc = "done"
    /\ sync["trigger"].errors = <<>>
    /\ \E i \in DOMAIN message :
          /\ message[i].processedForPost
          /\ \A p \in PostIds : ~Linked(postMessage, p, i)
    /\ nextPostId > 1
    /\ blogPost = <<>>

----------------------------------------------------------------------------
(* Claims on the summarizer *)

\* C20: whatever the model call does, generateBlogPost hands back a post with
\* a title and a content, and that post is the fallback (fallback = true)
\* unless the model answered with the JSON object asked for.
C20_AlwaysTitleAndContent ==
    \A c \in Callers :
        job[c].pc = "create" =>
            /\ job[c].aiContent.title # "undefined"
            /\ job[c].aiContent.content # "undefined"
            /\ job[c].aiContent.fallback \/ job[c].aiContent = AiPost

\* the model answered with JSON holding neither title nor content
C20_Witness ==
    \E c \in Callers :
        /\ job[c].pc = "create"
        /\ job[c].aiContent = generateBlogPost("jsonWithoutFields")
        /\ ~job[c].aiContent.fallback

----------------------------------------------------------------------------
(* Claims on the detector against a per-conversation grouping *)

FilterChat(msgs, chat) == SelectSeq(msgs, LAMBDA m : m.chatId = chat)

\* one conversation's ascending list cut wherever two neighbours are gap or
\* more apart: the set of the id lists of the pieces
RECURSIVE SplitAtGaps(_, _, _, _)
SplitAtGaps(list, i, piece, gap) ==
    IF i > Len(list) THEN (IF piece = <<>> THEN {} ELSE {piece})
    ELSE IF piece # <<>> /\ list[i].sentAt - list[i - 1].sentAt >= gap
         THEN {piece} \cup SplitAtGaps(list, i + 1, <<list[i].id>>, gap)
    ELSE SplitAtGaps(list, i + 1, Append(piece, list[i].id), gap)

GroupThenSplit(msgs, hours) ==
    UNION {SplitAtGaps(FilterChat(msgs, c), 1, <<>>, gapMs(hours)) : c \in Chats}

ScanThreads == {dOut[k].messageIds : k \in DOMAIN dOut}

\* two neighbours of one conversation, less than the threshold apart, have a
\* message of another conversation between them in the scan order
Interleaved ==
    \E i, k \in DOMAIN dIn :
        /\ i + 1 < k
        /\ dIn[i].chatId = dIn[k].chatId
        /\ \A j \in (i + 1)..(k - 1) : dIn[j].chatId # dIn[i].chatId
        /\ dIn[k].sentAt - dIn[i].sentAt < gapMs(dGap)

\* C21 as stated: the single-pass scan and the per-conversation grouping
\* return the same set of threads for every ascending input.
C21_SameAsGroupBy ==
    dDone => ScanThreads = GroupThenSplit(dIn, dGap)

\* C21: the single-pass scan and the per-conversation grouping return the
\* same set of threads exactly when no message of another conversation lies
\* between two neighbours of one conversation less than the threshold apart.
C21_SameUnlessInterleaved ==
    dDone => (ScanThreads = GroupThenSplit(dIn, dGap) <=> ~Interleaved)

\* chat-1, chat-2, chat-1 within the threshold: three threads against two
C21_Witness ==
    /\ dDone
    /\ Interleaved
    /\ Cardinality(ScanThreads) = 3
    /\ Cardinality(GroupThenSplit(dIn, dGap)) = 2

\* the input is two messages of one chat, more than the threshold apart
TwoFarApart ==
    /\ dDone
    /\ Len(dIn) = 2
    /\ dIn[1].chatId = dIn[2].chatId
    /\ dIn[2].sentAt - dIn[1].sentAt > gapMs(dGap)

----------------------------------------------------------------------------
(* Claims on the message count of a Post *)

LinkedMessages(links, p) == {links[k].messageId : k \in LinksOf(links, p)}

\* C23: messageCount of a Post is the number of Message rows linked to it,
\* from its creation on: no step changes the messageCount or the linked
\* messages of a Post that stays in the table.
C23_MessageCountFixed ==
    /\ [](\A p \in DOMAIN blogPost :
             /\ blogPost[p].messageCount = Cardinality(LinksOf(postMessage, p))
             /\ blogPost[p].messageCount =
                  Cardinality(LinkedMessages(postMessage, p)))
    /\ [][\A p \in DOMAIN blogPost \cap DOMAIN blogPost' :
             /\ blogPost'[p].messageCount = blogPost[p].messageCount
             /\ LinkedMessages(postMessage', p) = LinkedMessages(postMessage, p)]_vars

\* a post made from a thread of two messages has been published and
\* archived
C23_Witness ==
    \E p \in DOMAIN blogPost :
        /\ blogPost[p].messageCount = 2
        /\ Cardinality(LinkedMessages(postMessage, p)) = 2
        /\ blogPost[p].status = "ARCHIVED"
        /\ blogPost[p].publishedAt # "null"

----------------------------------------------------------------------------
(* Claims on authentication *)

UniqueEmails ==
    \A i, j \in DOMAIN user : user[i].email = user[j].email => i = j

\* C24: a well-formed register request for an email that has a user row when
\* the request looks it up is answered 409 'Email already exists' and writes
\* nothing; under every interleaving no two user rows share an email.
C24_DuplicateEmailRejected ==
    /\ [](UniqueEmails)
    /\ [][\A u \in AuthClients :
            (/\ auth[u].pc = "idle"
             /\ auth'[u].op = "register"
             /\ isValidEmail(auth'[u].email)
             /\ isValidPassword(auth'[u].password)
             /\ UserByEmail(auth'[u].email) # {}) =>
                /\ auth'[u].pc = "done"
                /\ auth'[u].response = ErrorResponse(409, "Email already exists")
                /\ user' = user
                /\ issued' = issued]_vars

C24_Witness ==
    \E u \in AuthClients :
        /\ auth[u].op = "register"
        /\ auth[u].pc = "done"
        /\ auth[u].response.status = 409
        /\ Cardinality(UserByEmail(auth[u].email)) = 1

C26_RefreshTokensOnly ==
    \A u \in AuthClients :
        (/\ auth[u].op = "refresh"
         /\ auth[u].pc = "done"
         /\ auth[u].response.accessToken # NoToken) =>
            /\ auth[u].token \in issued
            /\ auth[u].token.userId \in DOMAIN user
            /\ auth[u].token = generateRefreshToken(auth[u].token.userId)

\* an access token was exchanged for a new access token
C26_Witness ==
    \E u \in AuthClients :
        /\ auth[u].op = "refresh"
        /\ auth[u].pc = "done"
        /\ auth[u].response.status = 200
        /\ auth[u].token.expiresIn = "15m"

----------------------------------------------------------------------------
(* Claims on failures outside the per-thread loop *)

SyncErrorKinds == {"Sync failed", "Failed to store message"}

HasSyncError(res) == \E kind \in SyncErrorKinds : HasError(res, kind)

\* C27 as stated: a run whose sync step or detection step failed attempts no
\* thread and counts none.
C27_EndsEarly ==
    \A c \in Callers :
        (HasSyncError(job[c].result) \/ HasError(job[c].result, "Job failed")) =>
            /\ job[c].pc \notin LoopPcs
            /\ job[c].result.threadsProcessed = 0
            /\ job[c].result.draftsCreated = 0

\* C27: a failure of detection (step 2) is caught at the top level, appended
\* as a 'Job failed' entry, and ends the run at once with zero counts, the
\* guard released and a result returned; a failure of the sync (step 1) comes
\* back inside the sync result, its entries are appended to the error list
\* and the run goes on to detection with the guard held.
C27_DetectionEndsSyncGoesOn ==
    /\ [](\A c \in Callers :
             HasError(job[c].result, "Job failed") =>
                /\ job[c].pc = "returned"
                /\ job[c].result.threadsProcessed = 0
                /\ job[c].result.draftsCreated = 0)
    /\ [][\A c \in Callers :
            /\ (job[c].pc = "detect" /\ job'[c].pc = "returned"
                  /\ job'[c].result.errors # job[c].result.errors) =>
                  /\ job'[c].result.errors =
                       Append(job[c].result.errors,
                              JobFailedError("detectThreadBoundaries"))
                  /\ ~isRunning'
            /\ (job[c].pc \in {"sync", "store"} /\ job'[c] # job[c]) =>
                  /\ job'[c].pc \in {"store", "detect"}
                  /\ isRunning'
                  /\ job'[c].pc = "detect" =>
                       LET old == job[c].result.errors
                           new == job'[c].result.errors
                       IN /\ Len(new) >= Len(old)
                          /\ SubSeq(new, 1, Len(old)) = old
                          /\ \A i \in (Len(old) + 1)..Len(new) :
                                new[i].kind \in SyncErrorKinds]_vars

\* detection failed after a sync that had failed too: both entries are in the
\* result, no thread was attempted
C27_Witness ==
    \E c \in Callers :
        /\ job[c].pc = "returned"
        /\ HasSyncError(job[c].result)
        /\ HasError(job[c].result, "Job failed")
        /\ job[c].result.threadsProcessed = 0
        /\ ~isRunning

----------------------------------------------------------------------------
(* Claims on which threads the cap keeps *)

Kept(todo) == UNION {Range(todo[i].messageIds) : i \in DOMAIN todo}

----------------------------------------------------------------------------
(* Claims on the shape of a thread *)

First(seq) == seq[1]

Last(seq) == seq[Len(seq)]

\* C29: every returned thread is a maximal run: its members have its chatId,
\* are neighbours in the scan order and each is less than the threshold after
\* the one before; the thread closed just before another one ends with a
\* message of another chat, or one at least the threshold older, than the
\* message the other starts with. Four chat-1 messages at 0h, 1h, 5h, 5h10m
\* under 2h give the threads [3,4] and [1,2].
C29_MaximalRuns ==
    dDone =>
        /\ \A k \in DOMAIN dOut :
              LET ids == dOut[k].messageIds IN
              /\ \A i \in DOMAIN ids : MsgOf(ids[i]).chatId = dOut[k].chatId
              /\ \A i \in 1..(Len(ids) - 1) :
                    /\ PosOf(ids[i + 1]) = PosOf(ids[i]) + 1
                    /\ MsgOf(ids[i + 1]).sentAt - MsgOf(ids[i]).sentAt
                         < gapMs(dGap)
        /\ \A k \in 1..(Len(dOut) - 1) :
              LET a == MsgOf(Last(dOut[k + 1].messageIds))
                  b == MsgOf(First(dOut[k].messageIds))
              IN /\ PosOf(b.id) = PosOf(a.id) + 1
                 /\ \/ a.chatId # b.chatId
                    \/ b.sentAt - a.sentAt >= gapMs(dGap)
        /\ dIn = FourMessages =>
              [k \in DOMAIN dOut |-> dOut[k].messageIds] = <<(<<3, 4>>), (<<1, 2>>)>>

C29_Witness ==
    /\ dDone
    /\ dIn = FourMessages
    /\ Len(dOut) = 2
    /\ dOut[1].messageCount = 2
    /\ dOut[2].messageCount = 2

MemberTimes(t) == {MsgOf(t.messageIds[i]).sentAt : i \in DOMAIN t.messageIds}

MemberSenders(t) == {MsgOf(t.messageIds[i]).senderId : i \in DOMAIN t.messageIds}

\* C30: for every returned thread messageCount is the length of messageIds,
\* startTime is the timestamp of the first member and the least of all,
\* endTime that of the last member and the greatest of all, and participants
\* lists the senders of the members, each once.
C30_AttributesAgree ==
    dDone =>
        \A k \in DOMAIN dOut :
            LET t == dOut[k] IN
            /\ t.messageCount = Len(t.messageIds)
            /\ t.startTime = MsgOf(First(t.messageIds)).sentAt
            /\ t.endTime = MsgOf(Last(t.messageIds)).sentAt
            /\ \A x \in MemberTimes(t) : t.startTime <= x /\ x <= t.endTime
            /\ Range(t.participants) = MemberSenders(t)
            /\ Len(t.participants) = Cardinality(MemberSenders(t))

\* a thread of three messages by two senders, spread over time
C30_Witness ==
    /\ dDone
    /\ \E k \in DOMAIN dOut :
          /\ dOut[k].messageCount = 3
          /\ Len(dOut[k].participants) = 2
          /\ dOut[k].startTime < dOut[k].endTime

----------------------------------------------------------------------------
(* Claims on the counts and the error list of a run *)

\* C31: threadsProcessed and draftsCreated are equal at every moment, at most
\* maxThreads and at most the number of threads already gone through; they
\* change during a run only by one, both together, in the step in which
\* createDraftPost returns (Post row present, every message of the thread
\* claimed, no error appended), and every such step changes them.
C31_CountsMatch ==
    /\ [](\A c \in Callers :
             /\ job[c].result.threadsProcessed = job[c].result.draftsCreated
             /\ job[c].result.draftsCreated <= maxThreads
             /\ job[c].pc \in LoopPcs =>
                  /\ job[c].k <= Len(job[c].threadsToProcess)
                  /\ job[c].result.draftsCreated <= job[c].k - 1)
    /\ [][\A c \in Callers :
            LET r == job[c].result
                r2 == job'[c].result
                completes ==
                    /\ job[c].pc = "mark"
                    /\ job'[c] # job[c]
                    /\ r2.errors = r.errors
            IN /\ (job[c].pc \in ActivePcs /\ r2.draftsCreated # r.draftsCreated) =>
                     completes
               /\ (job[c].pc \in ActivePcs /\ r2.threadsProcessed # r.threadsProcessed) =>
                     completes
               /\ completes =>
                     /\ r2.draftsCreated = r.draftsCreated + 1
                     /\ r2.threadsProcessed = r.threadsProcessed + 1
                     /\ r2.draftsCreated <= Len(job[c].threadsToProcess)
                     /\ job[c].post \in DOMAIN blogPost'
                     /\ \A m \in Range(CurrentThread(c).messageIds) :
                           message'[m].processedForPost]_vars

\* a run returned one draft although two Post rows exist: the createDraftPost
\* call that failed after writing its Post is not counted
C31_Witness ==
    \E c \in Callers :
        /\ job[c].pc = "returned"
        /\ job[c].result.draftsCreated = 1
        /\ job[c].result.threadsProcessed = 1
        /\ HasError(job[c].result, "Thread processing failed")
        /\ Cardinality(DOMAIN blogPost) = 2

\* C32: the thread a run is working on and the threads it still has to go
\* through hold unclaimed messages only: a claimed message is in no thread
\* that is loaded, summarized or turned into a draft.
C32_OnlyUnclaimedDetected ==
    \A c \in Callers :
        job[c].pc \in LoopPcs =>
            \A i \in job[c].k..Len(job[c].threadsToProcess) :
                \A m \in Range(job[c].threadsToProcess[i].messageIds) :
                    /\ m \in DOMAIN message
                    /\ ~message[m].processedForPost

\* a later run summarizes a thread while an earlier draft's message is claimed
C32_Witness ==
    \E c \in Callers :
        /\ job[c].pc = "summarize"
        /\ \E m \in DOMAIN message :
              /\ message[m].processedForPost
              /\ \E k \in DOMAIN postMessage : postMessage[k].messageId = m
        /\ Unclaimed # {}

----------------------------------------------------------------------------
(* Claims on runs that follow one another *)

Attempted(m) ==
    \E c \in Callers :
        /\ job[c].pc \in LoopPcs
        /\ m \in Range(CurrentThread(c).messageIds)

\* C33: with runs invoked one after another and nothing new to ingest, every
\* unclaimed message is eventually in a thread that a run attempts (as long
\* as the table of posts has room for a new row).
C33_EventuallyAttempted ==
    \A m \in DOMAIN Archive :
        (m \in Unclaimed) ~> (Attempted(m) \/ nextPostId > MaxPosts)

\* the newest thread has failed and no post was written, under a cap of one
C33_Witness ==
    \E c \in Callers :
        /\ maxThreads = 1
        /\ job[c].pc = "returned"
        /\ HasError(job[c].result, "Thread processing failed")
        /\ nextPostId = 1
        /\ Cardinality(Unclaimed) = Len(Archive)

----------------------------------------------------------------------------
(* Claims on deleting posts and on the links of a post *)

C35_NoOrphanPost ==
    /\ \A p \in DOMAIN blogPost : LinksOf(postMessage, p) # {}
    /\ \A k \in DOMAIN postMessage :
          /\ postMessage[k].postId \in DOMAIN blogPost
          /\ postMessage[k].messageId \in DOMAIN message

\* a post whose createDraftPost failed after the create, one that was
\* archived, and a deletion that went through
C35_Witness ==
    /\ nextPostId > MaxPosts
    /\ Cardinality(DOMAIN blogPost) = 1
    /\ \E p \in DOMAIN blogPost :
          /\ blogPost[p].status = "ARCHIVED"
          /\ Cardinality(LinksOf(postMessage, p)) = blogPost[p].messageCount
    /\ Unclaimed # {}

----------------------------------------------------------------------------
(* Claims on requests served at once *)

\* C36: whatever the interleaving of requests on one post, an updatePost or
\* publishPost that succeeds writes to a post that is a draft at the moment
\* of the write, and a deletePost that succeeds deletes a post that is not
\* published at the moment of the delete; no other step changes the title,
\* the content or publishedAt of a post or removes one.
C36_GuardsUnderConcurrency ==
    [][/\ \A u \in Clients :
            (/\ req[u].pc = "found"
             /\ req'[u].pc = "done"
             /\ req'[u].outcome = "ok") =>
                /\ req[u].id \in DOMAIN blogPost
                /\ req[u].op \in {"updatePost", "publishPost"} =>
                       blogPost[req[u].id].status = "DRAFT"
                /\ req[u].op = "deletePost" =>
                       blogPost[req[u].id].status # "PUBLISHED"
       /\ \A p \in DOMAIN blogPost :
            blogPost[p].status = "PUBLISHED" =>
                /\ p \in DOMAIN blogPost'
                /\ blogPost'[p].title = blogPost[p].title
                /\ blogPost'[p].content = blogPost[p].content]_vars

----------------------------------------------------------------------------
(* Claims on the life of a post *)

Forward(from, to) ==
    \/ from = to
    \/ from = "DRAFT" /\ to \in {"PUBLISHED", "ARCHIVED"}
    \/ from = "PUBLISHED" /\ to = "ARCHIVED"

\* C37: over calls served one after another, the status of a post only
\* moves forward, draft to published to archived or draft to archived; a
\* post enters the table as a draft under a fresh id, and the id of a
\* deleted post is not given again.
C37_StatusForward ==
    /\ [](\A p \in DOMAIN blogPost :
            /\ p < nextPostId
            /\ blogPost[p].status \in {"DRAFT", "PUBLISHED", "ARCHIVED"})
    /\ [][/\ \A p \in DOMAIN blogPost \cap DOMAIN blogPost' :
               Forward(blogPost[p].status, blogPost'[p].status)
          /\ \A p \in DOMAIN blogPost' \ DOMAIN blogPost :
               /\ p = nextPostId
               /\ blogPost'[p].status = "DRAFT"
          /\ nextPostId' >= nextPostId]_vars

\* a post that went from draft to published to archived, and a publishPost
\* on it that was refused
C37_Witness ==
    \E u \in Clients :
        /\ req[u].pc = "done"
        /\ req[u].op = "publishPost"
        /\ req[u].outcome = "Can only publish draft posts"
        /\ req[u].id \in DOMAIN blogPost
        /\ blogPost[req[u].id].status = "ARCHIVED"
        /\ PublishedAtSet(req[u].id)

----------------------------------------------------------------------------
(* Claims on the error list of a run *)

Rank(e) ==
    IF e.kind \in SyncErrorKinds THEN 1
    ELSE IF e.kind = "Thread processing failed" THEN 2
    ELSE IF e.kind = "Job failed" THEN 3
    ELSE 0

Count(errs, kind) == Cardinality({i \in DOMAIN errs : errs[i].kind = kind})

Acquired(c) ==
    \/ job[c].pc \in ActivePcs
    \/ job[c].pc = "returned" /\ job[c].result # RejectedResult

\* C38: the error list of a run that acquired the guard is the errors of
\* the sync, then one 'Thread processing failed' entry per attempted thread
\* that failed, then at most one 'Job failed' entry, which is appended only
\* by a step outside the loop (detection) and then stands with no thread
\* entry; a sync that reports errors is followed by detection; each thread
\* that ends adds one to draftsCreated or one thread entry, so the threads
\* attempted are draftsCreated plus the thread entries.
C38_ErrorList ==
    /\ [](\A c \in Callers :
            Acquired(c) =>
                LET errs == job[c].result.errors IN
                /\ \A i \in DOMAIN errs : Rank(errs[i]) \in {1, 2, 3}
                /\ \A i, j \in DOMAIN errs :
                      i < j => Rank(errs[i]) <= Rank(errs[j])
                /\ Count(errs, "Job failed") <= 1
                /\ HasError(job[c].result, "Job failed") =>
                      Count(errs, "Thread processing failed") = 0
                /\ job[c].pc \in {"sync", "store"} => errs = <<>>
                /\ job[c].pc \in LoopPcs =>
                      job[c].result.draftsCreated
                        + Count(errs, "Thread processing failed") = job[c].k - 1)
    /\ [][\A c \in Callers :
            LET old == job[c].result.errors
                new == job'[c].result.errors
                drafts == job[c].result.draftsCreated
                drafts2 == job'[c].result.draftsCreated
                ends == \/ job'[c].pc = "returned"
                        \/ job'[c].k # job[c].k
            IN /\ (job[c].pc \in {"sync", "store"} /\ job'[c].pc # job[c].pc) =>
                     /\ job'[c].pc \in {"store", "detect"}
                     /\ job'[c].pc = "detect" =>
                          \/ new = job[c].syncErrors
                          \/ /\ Len(new) = Len(job[c].syncErrors) + 1
                             /\ SubSeq(new, 1, Len(new) - 1) = job[c].syncErrors
                             /\ new[Len(new)].kind \in SyncErrorKinds
               /\ (job[c].pc = "detect" /\ job'[c] # job[c]) =>
                     \/ new = old
                     \/ /\ new = Append(old, JobFailedError("detectThreadBoundaries"))
                        /\ job'[c].pc = "returned"
               /\ (job[c].pc \in LoopPcs /\ job'[c] # job[c]) =>
                     IF ends
                     THEN /\ \/ new = old /\ drafts2 = drafts + 1
                             \/ /\ drafts2 = drafts
                                /\ Len(new) = Len(old) + 1
                                /\ SubSeq(new, 1, Len(old)) = old
                                /\ new[Len(new)].kind = "Thread processing failed"
                          /\ job'[c].pc = "returned" =>
                                /\ job[c].k = Len(job[c].threadsToProcess)
                                /\ drafts2 + Count(new, "Thread processing failed")
                                     = Len(job[c].threadsToProcess)
                     ELSE new = old /\ drafts2 = drafts]_vars

\* a run returned with an error of the sync, then the entry of a thread
\* that failed, and one draft
C38_Witness ==
    \E c \in Callers :
        /\ job[c].pc = "returned"
        /\ Len(job[c].result.errors) = 2
        /\ job[c].result.errors[1].kind = "Failed to store message"
        /\ job[c].result.errors[2].kind = "Thread processing failed"
        /\ job[c].result.draftsCreated = 1

============================================================================
